---- MODULE Spec2Model ----
(***************************************************************************)
(* Model of the signing daemon runtime (src/src/signd/runtime.rs):         *)
(* construction of the runtime from the master key file, and the ESB       *)
(* handler (handle, handle_err, handle_ctl) serving Sign and DeriveKeyset  *)
(* requests on the control bus.                                            *)
(***************************************************************************)
EXTENDS Integers, Sequences, FiniteSets, TLC

VARIABLES
    phase,          \* "start" | "failed" | "running" | "panicked"
    config,         \* the Config value given to run(): chain and key file
    self,           \* the Runtime { chain, provider }, NoRuntime before/without construction
    request,        \* the last call made on the handler by the service loop
    result,         \* what that call (or construction) returned
    sends,          \* the send_to calls of that call, in order, with their outcome
    channel_index,  \* <<channel_index>> of the last DeriveKeyset (a u32), <<>> otherwise
    keysets,        \* channel id -> the set of keysets sent for it so far
    rederived,      \* the last call sent a keyset for a channel id that already had one
    handled,        \* number of handle calls so far
    delivered       \* number of messages delivered so far

vars == <<phase, config, self, request, result, sends, channel_index, keysets,
          rederived, handled, delivered>>

----------------------------------------------------------------------------
(* Bounds *)

MaxReq == 3         \* handle calls per run
MaxInputs == 1      \* inputs of a PSBT

----------------------------------------------------------------------------
(* 32-bit unsigned integers, as bit vectors: bit 0 is the least significant *)

Pow2(n) == 2 ^ n

Bit(b, j) == (b \div Pow2(j)) % 2

\* a u32 literal / cast of a value below 2^31
U32Of(n) == [i \in 0..31 |-> IF i = 31 THEN 0 ELSE Bit(n, i)]

\* 0x7FFFFFFF
HardenedMask == [i \in 0..31 |-> IF i = 31 THEN 0 ELSE 1]

\* operator & on u32
BitAnd(a, b) == [i \in 0..31 |-> a[i] * b[i]]

\* the value of bits 8k..8k+7 of w
Octet(w, k) ==
    w[8 * k] + 2 * w[8 * k + 1] + 4 * w[8 * k + 2] + 8 * w[8 * k + 3]
    + 16 * w[8 * k + 4] + 32 * w[8 * k + 5] + 64 * w[8 * k + 6] + 128 * w[8 * k + 7]

\* the number a u32 with bit 31 clear stands for
U32Value(w) ==
    Octet(w, 0) + 256 * Octet(w, 1) + 65536 * Octet(w, 2) + 16777216 * Octet(w, 3)

\* u32::from_le_bytes: buf[1] is the least significant byte
from_le_bytes(buf) == [i \in 0..31 |-> Bit(buf[1 + (i \div 8)], i % 8)]

\* u32::from_be_bytes: buf[1] is the most significant byte
from_be_bytes(buf) == [i \in 0..31 |-> Bit(buf[4 - (i \div 8)], i % 8)]

----------------------------------------------------------------------------
(* Results and errors *)

Ok == [kind |-> "Ok"]

IoError == [kind |-> "Io"]
SigningError == [kind |-> "Signing"]
DerivationError == [kind |-> "Derivation"]
EsbError == [kind |-> "Esb"]

IsErr(r) == r.kind # "Ok"

\* Error::wrong_esb_msg(bus, &msg)
wrong_esb_msg(bus, msg) == [kind |-> "WrongEsbMsg", bus |-> bus, msg |-> msg]

----------------------------------------------------------------------------
(* BIP32 *)

\* ChildNumber::from_hardened_idx: fails when bit 31 of the index is set
from_hardened_idx(idx) ==
    IF idx[31] = 0
    THEN [kind |-> "Ok", hardened |-> TRUE, index |-> U32Value(idx)]
    ELSE [kind |-> "InvalidChildNumber", hardened |-> FALSE, index |-> 0]

\* one hardened child derivation step of a private key; a pure function of
\* the parent key and the child number that fails for a few of them
CkdPriv(k, cn) ==
    LET v == (k * 3 + (cn.index % 7) + 1) % 11
    IN  IF v = 0 THEN [kind |-> "Derivation", key |-> 0]
                 ELSE [kind |-> "Ok", key |-> v]

RECURSIVE derive_priv(_, _)
\* ExtendedPrivKey::derive_priv: walk the path from the key
derive_priv(xpriv, path) ==
    IF path = <<>> THEN [kind |-> "Ok", key |-> xpriv]
    ELSE LET r == CkdPriv(xpriv, Head(path))
         IN  IF IsErr(r) THEN r ELSE derive_priv(r.key, Tail(path))

----------------------------------------------------------------------------
(* Values: chains, service identities, channel identifiers, PSBTs, messages *)

Chains == {"Mainnet", "Testnet3"}

\* self.chain.chain_params().is_testnet
is_testnet(chain) == chain # "Mainnet"

\* a 32-byte array: four leading bytes, the other 28 all equal to fill
Slice32(lead, fill) == [i \in 1..32 |-> IF i <= 4 THEN lead[i] ELSE fill]

\* 00000005.. (index 5), 80000005.. (index 5 under the mask, other tail bytes),
\* ffffffff.. (the largest index)
ChannelIds ==
    { Slice32(<<0, 0, 0, 5>>, 0),
      Slice32(<<128, 0, 0, 5>>, 7),
      Slice32(<<255, 255, 255, 255>>, 255) }

\* variant that keeps the four leading bytes and zeroes the rest
ChannelId_from_prefix(slice32) == [i \in 1..32 |-> IF i <= 4 THEN slice32[i] ELSE 0]

\* ChannelId::from_inner
ChannelId_from_inner(slice32) == slice32

Signer == [service |-> "Signer", id |-> <<>>]
Lnpd == [service |-> "Lnpd", id |-> <<>>]
ServiceId_Channel(id) == [service |-> "Channel", id |-> id]

Sources == {Lnpd, ServiceId_Channel(Slice32(<<0, 0, 0, 5>>, 0))}

Buses == {"Ctl", "Msg"}

Psbts ==
    { p \in [txid : {1}, inputs : 1..MaxInputs, sigs : 0..MaxInputs] : p.sigs <= p.inputs }

Sign(psbt) == [type |-> "Sign", psbt |-> psbt]
DeriveKeyset(slice32) == [type |-> "DeriveKeyset", slice32 |-> slice32]
Signed(psbt) == [type |-> "Signed", psbt |-> psbt]
Keyset(service, keyset) == [type |-> "Keyset", service |-> service, keyset |-> keyset]
Hello == [type |-> "Hello"]

\* CtlMsg::with_error(&source, &msg, &err)
with_error(destination, message, err) ==
    [type |-> "Error", destination |-> destination, request |-> message, error |-> err]

BusMsg_Ctl(msg) == [type |-> "Ctl", msg |-> msg]
BusMsg_Bolt == [type |-> "Bolt", msg |-> [type |-> "Ping"]]

\* the control messages the service loop may hand to the handler
CtlMsgs ==
    { Sign(p) : p \in Psbts } \cup { DeriveKeyset(c) : c \in ChannelIds }
    \cup { Hello, Signed([txid |-> 1, inputs |-> 1, sigs |-> 1]) }

BusMsgs == { BusMsg_Ctl(m) : m \in CtlMsgs } \cup { BusMsg_Bolt }

\* what the environment decides during one call: the outcome of sign_all
\* (-1: error, otherwise the number of signatures added) and of each send_to
Envs == [sign : -1..MaxInputs, send : [1..2 -> BOOLEAN]]

\* the choices that can matter to the call: signing happens for Sign on the
\* control bus alone, sending for control messages on the control bus alone
EnvsFor(bus, message) ==
    IF bus = "Ctl" /\ message.type = "Ctl"
    THEN IF message.msg.type = "Sign"
         THEN { e \in Envs : e.sign <= message.msg.psbt.inputs - message.msg.psbt.sigs }
         ELSE { e \in Envs : e.sign = 0 }
    ELSE { e \in Envs : e.sign = 0 /\ e.send[1] /\ e.send[2] }

----------------------------------------------------------------------------
(* Key file and construction *)

MasterIds == {21}
Derivations == {<<>>}
XPrivs == {3, 8}

Field(v) == [ok |-> TRUE, val |-> v]
Corrupt == [ok |-> FALSE, val |-> 0]

\* the key files: missing, or any prefix of the three fields, each field
\* well-formed or not
KeyFiles ==
    LET f1 == { Field(m) : m \in MasterIds } \cup { Corrupt }
        f2 == { Field(d) : d \in Derivations } \cup { Corrupt }
        f3 == { Field(x) : x \in XPrivs } \cup { Corrupt }
    IN  { [exists |-> FALSE, fields |-> <<>>], [exists |-> TRUE, fields |-> <<>>] }
        \cup { [exists |-> TRUE, fields |-> <<a>>] : a \in f1 }
        \cup { [exists |-> TRUE, fields |-> <<a, b>>] : a \in f1, b \in f2 }
        \cup { [exists |-> TRUE, fields |-> <<a, b, c>>] : a \in f1, b \in f2, c \in f3 }

Configs == [chain : Chains, key_file : KeyFiles]

\* fs::File::open
File_open(cfg) == IF cfg.key_file.exists THEN Ok ELSE IoError

\* T::strict_decode(&mut file) of the n-th field
strict_decode(file, n) ==
    IF n <= Len(file.fields) /\ file.fields[n].ok
    THEN [kind |-> "Ok", val |-> file.fields[n].val]
    ELSE [kind |-> "Decode", val |-> 0]

\* MemorySigningAccount::with
MemorySigningAccount_with(master_id, derivation, account_xpriv) ==
    [master_id |-> master_id, derivation |-> derivation, account_xpriv |-> account_xpriv]

\* MemoryKeyProvider::with(secp, true)
MemoryKeyProvider_with == [accounts |-> {}, musig |-> TRUE]

\* variant that loses the account
add_account_noop(provider, account) == provider

\* MemoryKeyProvider::add_account
add_account(provider, account) == [provider EXCEPT !.accounts = @ \cup {account}]

NoProvider == [accounts |-> {}, musig |-> FALSE]
NoRuntime == [exists |-> FALSE, chain |-> "none", provider |-> NoProvider]

\* variant that falls back to the empty derivation path when the second
\* field does not decode
Runtime_provider_lenient(cfg) ==
    LET file == cfg.key_file
        master_id == strict_decode(file, 1)
        derivation == strict_decode(file, 2)
        account_xpriv == strict_decode(file, 3)
    IN  IF IsErr(File_open(cfg)) THEN [kind |-> "Io", provider |-> NoProvider]
        ELSE IF IsErr(master_id) THEN [kind |-> "Decode", provider |-> NoProvider]
        ELSE IF IsErr(account_xpriv) THEN [kind |-> "Decode", provider |-> NoProvider]
        ELSE [kind |-> "Ok",
              provider |-> [accounts |-> {MemorySigningAccount_with(master_id.val,
                                IF IsErr(derivation) THEN <<>> ELSE derivation.val,
                                account_xpriv.val)},
                            musig |-> TRUE]]

\* Runtime::provider
Runtime_provider(cfg) ==
    LET file == cfg.key_file
        master_id == strict_decode(file, 1)
        derivation == strict_decode(file, 2)
        account_xpriv == strict_decode(file, 3)
    IN  IF IsErr(File_open(cfg)) THEN [kind |-> "Io", provider |-> NoProvider]
        ELSE IF IsErr(master_id) THEN [kind |-> "Decode", provider |-> NoProvider]
        ELSE IF IsErr(derivation) THEN [kind |-> "Decode", provider |-> NoProvider]
        ELSE IF IsErr(account_xpriv) THEN [kind |-> "Decode", provider |-> NoProvider]
        ELSE [kind |-> "Ok",
              provider |-> add_account(MemoryKeyProvider_with,
                               MemorySigningAccount_with(master_id.val, derivation.val,
                                                         account_xpriv.val))]

\* Runtime::with
Runtime_with(cfg) ==
    LET p == Runtime_provider(cfg)
    IN  IF IsErr(p) THEN [kind |-> p.kind, runtime |-> NoRuntime]
        ELSE [kind |-> "Ok",
              runtime |-> [exists |-> TRUE, chain |-> cfg.chain, provider |-> p.provider]]

----------------------------------------------------------------------------
(* The handler *)

Panic == [kind |-> "Panic"]

\* esb::Handler::identity
identity == Signer

\* endpoints.send_to(bus, from, to, msg) as the n-th send of the call: the
\* attempt, and whether the transport delivered it
send_to(env, n, bus, from, to, msg) ==
    [bus |-> bus, from |-> from, to |-> to, msg |-> msg, ok |-> env.send[n]]

\* psbt.sign_all(&self.provider): fails, or adds env.sign signatures
sign_all(psbt, provider, env) ==
    IF env.sign < 0
    THEN [kind |-> "Signing", sig_count |-> 0, psbt |-> psbt]
    ELSE [kind |-> "Ok", sig_count |-> env.sign,
          psbt |-> [psbt EXCEPT !.sigs = @ + env.sign]]

\* what handle_ctl leaves behind: its return value, the sends it made, the
\* runtime after it, and the channel index it computed (if any)
Outcome(res, snds, rt, idx) ==
    [result |-> res, sends |-> snds, self |-> rt, channel_index |-> idx]

\* variant of the Sign arm that replies with the PSBT as it was received
handle_ctl_Sign_unsigned(rt, env, source, psbt) ==
    LET signed == sign_all(psbt, rt.provider, env)
        snd == send_to(env, 1, "Ctl", Signer, source, BusMsg_Ctl(Signed(psbt)))
    IN  IF IsErr(signed) THEN Outcome(SigningError, <<>>, rt, <<>>)
        ELSE IF ~snd.ok THEN Outcome(EsbError, <<snd>>, rt, <<>>)
        ELSE Outcome(Ok, <<snd>>, rt, <<>>)

\* variant of the Sign arm that sends the reply before it looks at the
\* result of signing
handle_ctl_Sign_send_first(rt, env, source, psbt) ==
    LET signed == sign_all(psbt, rt.provider, env)
        snd == send_to(env, 1, "Ctl", Signer, source, BusMsg_Ctl(Signed(signed.psbt)))
    IN  IF ~snd.ok THEN Outcome(EsbError, <<snd>>, rt, <<>>)
        ELSE IF IsErr(signed) THEN Outcome(SigningError, <<snd>>, rt, <<>>)
        ELSE Outcome(Ok, <<snd>>, rt, <<>>)

\* handle_ctl, the CtlMsg::Sign arm
handle_ctl_Sign(rt, env, source, psbt) ==
    LET signed == sign_all(psbt, rt.provider, env)
        snd == send_to(env, 1, "Ctl", Signer, source, BusMsg_Ctl(Signed(signed.psbt)))
    IN  IF IsErr(signed) THEN Outcome(SigningError, <<>>, rt, <<>>)
        ELSE IF ~snd.ok THEN Outcome(EsbError, <<snd>>, rt, <<>>)
        ELSE Outcome(Ok, <<snd>>, rt, <<>>)

\* variant without the mask
ChannelIndex_unmasked(slice32) ==
    LET buf == SubSeq(slice32, 1, 4)
    IN  from_be_bytes(buf)

\* let channel_index = u32::from_be_bytes(slice32[..4]) & 0x7FFFFFFF
ChannelIndex(slice32) ==
    LET buf == SubSeq(slice32, 1, 4)
        le == from_be_bytes(buf)
    IN  BitAnd(le, HardenedMask)

\* self.provider.into_iter().next()
first_account(provider) ==
    IF provider.accounts = {} THEN <<>>
    ELSE <<CHOOSE a \in provider.accounts : TRUE>>

\* variant that takes the identifier of the master key
account_fingerprint_master(account) == <<"fingerprint", account.master_id>>

\* account.account_fingerprint()
account_fingerprint(account) == <<"fingerprint", account.account_xpriv>>

\* variant that numbers the channels by the order of the requests
HardenedPath_counter(chain, idx) ==
    LET chain_index == U32Of(IF is_testnet(chain) THEN 1 ELSE 0)
    IN  << from_hardened_idx(chain_index), from_hardened_idx(U32Of(1)),
           from_hardened_idx(U32Of(0)), from_hardened_idx(U32Of(handled)) >>

\* [chain_index, 1, 0, channel_index] mapped through from_hardened_idx
HardenedPath(chain, idx) ==
    LET chain_index == U32Of(IF is_testnet(chain) THEN 1 ELSE 0)
    IN  << from_hardened_idx(chain_index), from_hardened_idx(U32Of(1)),
           from_hardened_idx(U32Of(0)), from_hardened_idx(idx) >>

\* LocalKeyset::with(secp, (fingerprint, path), channel_xpriv, None)
LocalKeyset_with(fingerprint, path, channel_xpriv, funding) ==
    [fingerprint |-> fingerprint, path |-> path, xpriv |-> channel_xpriv,
     funding |-> funding]

\* the path without the Result wrapper of each component
Unwrapped(path) == [i \in 1..Len(path) |-> [hardened |-> path[i].hardened,
                                            index |-> path[i].index]]

\* variant of the DeriveKeyset arm that reports a missing account as an error
handle_ctl_DeriveKeyset_strict(rt, env, source, slice32) ==
    LET idx == ChannelIndex(slice32)
        acc == first_account(rt.provider)
    IN  IF acc = <<>> THEN Outcome([kind |-> "NoAccount"], <<>>, rt, <<idx>>)
        ELSE
        LET account == acc[1]
            wrapped == HardenedPath(rt.chain, idx)
        IN  IF \E i \in 1..4 : IsErr(wrapped[i])
            THEN Outcome(Panic, <<>>, rt, <<idx>>)
            ELSE
            LET path == Unwrapped(wrapped)
                channel_xpriv == derive_priv(account.account_xpriv, path)
                keyset == LocalKeyset_with(account_fingerprint(account), path,
                                           channel_xpriv.key, <<>>)
                snd == send_to(env, 1, "Ctl", identity, source,
                          BusMsg_Ctl(Keyset(ServiceId_Channel(ChannelId_from_inner(slice32)),
                                            keyset)))
            IN  IF IsErr(channel_xpriv) THEN Outcome(DerivationError, <<>>, rt, <<idx>>)
                ELSE IF ~snd.ok THEN Outcome(EsbError, <<snd>>, rt, <<idx>>)
                ELSE Outcome(Ok, <<snd>>, rt, <<idx>>)

\* handle_ctl, the CtlMsg::DeriveKeyset arm
handle_ctl_DeriveKeyset(rt, env, source, slice32) ==
    LET idx == ChannelIndex(slice32)
        acc == first_account(rt.provider)
    IN  IF acc = <<>> THEN Outcome(Ok, <<>>, rt, <<idx>>)
        ELSE
        LET account == acc[1]
            wrapped == HardenedPath(rt.chain, idx)
        IN  IF \E i \in 1..4 : IsErr(wrapped[i])
            THEN Outcome(Panic, <<>>, rt, <<idx>>)
            ELSE
            LET path == Unwrapped(wrapped)
                channel_xpriv == derive_priv(account.account_xpriv, path)
                keyset == LocalKeyset_with(account_fingerprint(account), path,
                                           channel_xpriv.key, <<>>)
                snd == send_to(env, 1, "Ctl", identity, source,
                          BusMsg_Ctl(Keyset(ServiceId_Channel(ChannelId_from_inner(slice32)),
                                            keyset)))
            IN  IF IsErr(channel_xpriv) THEN Outcome(DerivationError, <<>>, rt, <<idx>>)
                ELSE IF ~snd.ok THEN Outcome(EsbError, <<snd>>, rt, <<idx>>)
                ELSE Outcome(Ok, <<snd>>, rt, <<idx>>)

\* variant whose catch-all arm falls through to Ok(())
handle_ctl_fallthrough(rt, env, source, message) ==
    IF message.type = "Sign" THEN handle_ctl_Sign(rt, env, source, message.psbt)
    ELSE IF message.type = "DeriveKeyset"
         THEN handle_ctl_DeriveKeyset(rt, env, source, message.slice32)
    ELSE Outcome(Ok, <<>>, rt, <<>>)

\* Runtime::handle_ctl
handle_ctl(rt, env, source, message) ==
    IF message.type = "Sign" THEN handle_ctl_Sign(rt, env, source, message.psbt)
    ELSE IF message.type = "DeriveKeyset"
         THEN handle_ctl_DeriveKeyset(rt, env, source, message.slice32)
    ELSE Outcome(wrong_esb_msg("Ctl", message), <<>>, rt, <<>>)

\* variant of the error branch that returns the error without an echo
handle_failed_silent(o, env, source, msg) == o

\* variant of the error branch with sender and receiver of the echo exchanged
handle_failed_swapped(o, env, source, msg) ==
    LET n == Len(o.sends) + 1
        echo == send_to(env, n, "Ctl", source, identity,
                        BusMsg_Ctl(with_error(source, msg, o.result)))
    IN  IF ~echo.ok THEN Outcome(EsbError, Append(o.sends, echo), o.self, o.channel_index)
        ELSE Outcome(o.result, Append(o.sends, echo), o.self, o.channel_index)

\* the error branch of handle: echo the request with the error, then return it
handle_failed(o, env, source, msg) ==
    LET n == Len(o.sends) + 1
        echo == send_to(env, n, "Ctl", identity, source,
                        BusMsg_Ctl(with_error(source, msg, o.result)))
    IN  IF ~echo.ok THEN Outcome(EsbError, Append(o.sends, echo), o.self, o.channel_index)
        ELSE Outcome(o.result, Append(o.sends, echo), o.self, o.channel_index)

\* variant of handle that takes a control message from any bus
Runtime_handle_any_bus(rt, env, bus, source, message) ==
    IF message.type = "Ctl"
    THEN LET o == handle_ctl(rt, env, source, message.msg)
         IN  IF o.result = Panic THEN o
             ELSE IF IsErr(o.result) THEN handle_failed(o, env, source, message.msg)
             ELSE Outcome(Ok, o.sends, o.self, o.channel_index)
    ELSE Outcome(wrong_esb_msg(bus, message), <<>>, rt, <<>>)

\* Runtime::handle
Runtime_handle(rt, env, bus, source, message) ==
    IF bus = "Ctl" /\ message.type = "Ctl"
    THEN LET o == handle_ctl(rt, env, source, message.msg)
         IN  IF o.result = Panic THEN o
             ELSE IF IsErr(o.result) THEN handle_failed(o, env, source, message.msg)
             ELSE Outcome(Ok, o.sends, o.self, o.channel_index)
    ELSE Outcome(wrong_esb_msg(bus, message), <<>>, rt, <<>>)

\* variant that returns the transport error it was given
Runtime_handle_err_propagate(rt, err) == Outcome(err, <<>>, rt, <<>>)

\* variant that starts over with an empty provider after a transport error
Runtime_handle_err_reset(rt, err) ==
    Outcome(Ok, <<>>, [rt EXCEPT !.provider = MemoryKeyProvider_with], <<>>)

\* Runtime::handle_err
Runtime_handle_err(rt, err) == Outcome(Ok, <<>>, rt, <<>>)

----------------------------------------------------------------------------
(* The state machine *)

NoEnv == [sign |-> 0, send |-> [i \in 1..2 |-> TRUE]]
NoRequest == [call |-> "none", bus |-> "none", source |-> Signer, message |-> Hello,
              env |-> NoEnv]
NoResult == [kind |-> "none"]

\* the keysets among the Keyset responses of a call, for channel id c
SentKeysets(snds, c) ==
    { snds[i].msg.msg.keyset : i \in { j \in 1..Len(snds) :
          /\ snds[j].msg.msg.type = "Keyset"
          /\ snds[j].msg.msg.service = ServiceId_Channel(c) } }

Delivered(snds) == Cardinality({ i \in 1..Len(snds) : snds[i].ok })

Init ==
    /\ phase = "start"
    /\ config \in Configs
    /\ self = NoRuntime
    /\ request = NoRequest
    /\ result = NoResult
    /\ sends = <<>>
    /\ channel_index = <<>>
    /\ keysets = [c \in ChannelIds |-> {}]
    /\ rederived = FALSE
    /\ handled = 0
    /\ delivered = 0

\* run(config): construct the runtime, and enter the service loop if it exists
run ==
    /\ phase = "start"
    /\ \E r \in {Runtime_with(config)} :
           /\ phase' = IF IsErr(r) THEN "failed" ELSE "running"
           /\ self' = r.runtime
           /\ result' = [kind |-> r.kind]
    /\ UNCHANGED <<config, request, sends, channel_index, keysets, rederived, handled,
                   delivered>>

\* the service loop hands one request to Handler::handle
handle ==
    /\ phase = "running"
    /\ handled < MaxReq
    /\ \E bus \in Buses, source \in Sources, message \in BusMsgs :
         \E env \in EnvsFor(bus, message) :
            \E o \in {Runtime_handle(self, env, bus, source, message)} :
                /\ phase' = IF o.result = Panic THEN "panicked" ELSE "running"
                /\ self' = o.self
                /\ request' = [call |-> "handle", bus |-> bus, source |-> source,
                               message |-> message, env |-> env]
                /\ result' = o.result
                /\ sends' = o.sends
                /\ channel_index' = o.channel_index
                /\ keysets' = [c \in ChannelIds |-> keysets[c] \cup SentKeysets(o.sends, c)]
                /\ rederived' = \E c \in ChannelIds :
                                    keysets[c] # {} /\ SentKeysets(o.sends, c) # {}
                /\ handled' = handled + 1
                /\ delivered' = delivered + Delivered(o.sends)
    /\ UNCHANGED config

\* the service loop reports a transport error to Handler::handle_err
handle_err ==
    /\ phase = "running"
    /\ \E err \in {EsbError} :
         \E o \in {Runtime_handle_err(self, err)} :
             /\ self' = o.self
             /\ request' = [call |-> "handle_err", bus |-> "none", source |-> Signer,
                            message |-> Hello, env |-> NoEnv]
             /\ result' = o.result
             /\ sends' = o.sends
             /\ channel_index' = o.channel_index
    /\ UNCHANGED <<phase, config, keysets, rederived, handled, delivered>>

Next == run \/ handle \/ handle_err

Spec == Init /\ [][Next]_vars

----------------------------------------------------------------------------
(* Reading the last call *)

\* the last call was handle, with a control message on the control bus
OnCtl == request.call = "handle" /\ request.bus = "Ctl" /\ request.message.type = "Ctl"

\* the control message of that call
Req == request.message.msg

\* a send_to call on the control bus from Signer to the origin of the request
ToOrigin(msg, ok) ==
    [bus |-> "Ctl", from |-> Signer, to |-> request.source, msg |-> BusMsg_Ctl(msg),
     ok |-> ok]

\* the error-wrapped echo of the request
Echo(err) == with_error(request.source, Req, err)

\* the request is Sign and sign_all fails
SignFails == OnCtl /\ Req.type = "Sign" /\ request.env.sign < 0

\* the request is Sign and sign_all succeeds
SignSucceeds == OnCtl /\ Req.type = "Sign" /\ request.env.sign >= 0

\* the key derive_priv yields for channel id c from the account of the key file
DerivedFor(c) ==
    derive_priv(config.key_file.fields[3].val,
                Unwrapped(HardenedPath(config.chain, ChannelIndex(c))))

\* the request is DeriveKeyset and derive_priv fails
DeriveFails == OnCtl /\ Req.type = "DeriveKeyset" /\ IsErr(DerivedFor(Req.slice32))

\* the request is DeriveKeyset and derive_priv succeeds
DeriveSucceeds == OnCtl /\ Req.type = "DeriveKeyset" /\ ~IsErr(DerivedFor(Req.slice32))

\* the request is a control message other than Sign and DeriveKeyset
Unsupported == OnCtl /\ Req.type \notin {"Sign", "DeriveKeyset"}

\* the kinds of the control messages sent during the last call
SentTypes == { sends[i].msg.msg.type : i \in 1..Len(sends) }

----------------------------------------------------------------------------
(* Claims *)

\* C1: a Sign(psbt) request from origin S on the control bus, when signing
\* succeeds and the send succeeds, makes the handler send exactly one message,
\* Signed(psbt') with the signed PSBT, to S, and handle returns Ok; no
\* error-wrapped echo is sent.
C1_SignedToOrigin ==
    (SignSucceeds /\ request.env.send[1])
        => /\ result = Ok
           /\ sends = << ToOrigin(Signed([Req.psbt EXCEPT !.sigs = @ + request.env.sign]),
                                  TRUE) >>

C1_Witness ==
    /\ SignSucceeds /\ request.env.send[1] /\ request.env.sign = 1
    /\ request.source = Lnpd
    /\ result = Ok
    /\ Len(sends) = 1 /\ sends[1].msg.msg.type = "Signed" /\ sends[1].msg.msg.psbt.sigs = 1

\* C2: a Sign or DeriveKeyset request whose handling fails with a signing or
\* derivation error makes the handler send one error-wrapped echo of the
\* original request to the origin and return that same error from handle;
\* it never returns Ok and never sends Signed or Keyset.
C2_DomainErrorEchoedAndReturned ==
    /\ SignFails
          => /\ result = SigningError
             /\ Len(sends) = 1
             /\ sends[1] = ToOrigin(Echo(SigningError), sends[1].ok)
    /\ DeriveFails
          => /\ result = DerivationError
             /\ Len(sends) = 1
             /\ sends[1] = ToOrigin(Echo(DerivationError), sends[1].ok)

\* C3 as stated: an unsupported control message yields exactly the
\* unsupported-message error and nothing is sent on the bus, not even an
\* error echo.
C3_UnsupportedSendsNothing ==
    Unsupported => (result = wrong_esb_msg("Ctl", Req) /\ sends = <<>>)

\* C3, amended: an unsupported control message causes no signing and no
\* derivation and no Signed or Keyset response; exactly one send is attempted,
\* the error-wrapped echo of the request with the unsupported-message error,
\* to the origin; handle returns an error, which is the unsupported-message
\* error whenever that echo is delivered.
C3_UnsupportedEchoed ==
    Unsupported
        => /\ channel_index = <<>>
           /\ Len(sends) = 1
           /\ sends[1] = ToOrigin(Echo(wrong_esb_msg("Ctl", Req)), request.env.send[1])
           /\ IsErr(result)
           /\ request.env.send[1] => result = wrong_esb_msg("Ctl", Req)

C3_Witness ==
    /\ Unsupported /\ Req = Hello
    /\ Len(sends) = 1 /\ sends[1].ok /\ sends[1].msg.msg.type = "Error"
    /\ result.kind = "WrongEsbMsg"

\* C4: a DeriveKeyset(c) request from origin S, while the provider holds an
\* account and when derivation and the send succeed, makes the handler send
\* exactly one message Keyset(c, keyset) to S, c being the 32 bytes of the
\* request, and handle returns Ok.
C4_KeysetToOrigin ==
    (DeriveSucceeds /\ self.provider.accounts # {} /\ request.env.send[1])
        => /\ result = Ok
           /\ Len(sends) = 1
           /\ sends[1].msg.msg.type = "Keyset"
           /\ sends[1] = ToOrigin(Keyset(ServiceId_Channel(Req.slice32),
                                         sends[1].msg.msg.keyset), TRUE)

C4_Witness ==
    /\ DeriveSucceeds /\ request.env.send[1]
    /\ Req.slice32 = Slice32(<<128, 0, 0, 5>>, 7)
    /\ result = Ok
    /\ Len(sends) = 1 /\ sends[1].ok /\ sends[1].msg.msg.type = "Keyset"
    /\ sends[1].msg.msg.service.id[32] = 7

\* C5: within one run, any two DeriveKeyset requests with the same channel id
\* get Keyset responses with identical keysets (fingerprint, path, derived
\* key), whatever was handled in between.
C5_SameKeysetPerChannel ==
    \A c \in ChannelIds : Cardinality(keysets[c]) <= 1

C5_Witness ==
    /\ rederived /\ handled >= 3
    /\ \E c \in ChannelIds :
          /\ Cardinality(keysets[c]) = 1
          /\ \A d \in ChannelIds \ {c} : keysets[d] = {}

\* a hardened child number
Hardened(n) == [hardened |-> TRUE, index |-> n]

\* the path the derivation is specified to use for channel id c
ExpectedPath(testnet, c) ==
    << Hardened(IF testnet THEN 1 ELSE 0), Hardened(1), Hardened(0),
       Hardened((c[1] % 128) * 16777216 + c[2] * 65536 + c[3] * 256 + c[4]) >>

C7_IndexMasked ==
    /\ phase # "panicked"
    /\ result # Panic
    /\ channel_index # <<>> => channel_index[1][31] = 0

C7_Witness ==
    /\ OnCtl /\ Req.type = "DeriveKeyset" /\ Req.slice32[1] = 128
    /\ channel_index # <<>> /\ U32Value(channel_index[1]) = 5
    /\ "Keyset" \in SentTypes

\* the key file opens and its three fields decode
KeyFileValid(file) ==
    /\ file.exists
    /\ Len(file.fields) >= 3
    /\ \A i \in 1..3 : file.fields[i].ok

\* C8: if opening the key file fails or one of its three fields does not
\* decode, construction returns an error, no key provider exists, and the
\* service never handles a request.
C8_StartupFatality ==
    (phase # "start" /\ ~KeyFileValid(config.key_file))
        => /\ phase = "failed"
           /\ result.kind = IF config.key_file.exists THEN "Decode" ELSE "Io"
           /\ self = NoRuntime
           /\ request = NoRequest
           /\ handled = 0
           /\ sends = <<>>

C8_Witness ==
    /\ phase = "failed"
    /\ config.key_file.exists
    /\ Len(config.key_file.fields) = 3
    /\ ~config.key_file.fields[2].ok
    /\ config.key_file.fields[1].ok /\ config.key_file.fields[3].ok

\* C9: after successful construction the key provider always holds exactly
\* the one signing account registered at startup, so the no-account branch of
\* DeriveKeyset (Ok without any send) is never taken.
C9_ProviderNeverEmpty ==
    phase \in {"running", "panicked"}
        => /\ self.provider.accounts
                = { MemorySigningAccount_with(config.key_file.fields[1].val,
                                              config.key_file.fields[2].val,
                                              config.key_file.fields[3].val) }
           /\ ~(OnCtl /\ Req.type = "DeriveKeyset" /\ result = Ok /\ sends = <<>>)

C9_Witness ==
    /\ phase = "running" /\ handled >= 2
    /\ OnCtl /\ Req.type = "DeriveKeyset"
    /\ Cardinality(self.provider.accounts) = 1

\* C10: every handle and handle_err call, whatever the request and its
\* outcome, leaves the runtime (the accounts of the key provider and the
\* chain) as construction made it.
C10_Stateless ==
    phase \in {"running", "panicked"} => self = Runtime_with(config).runtime

C10_Witness ==
    /\ phase = "running" /\ handled >= 2
    /\ request.call = "handle_err"
    /\ \E c \in ChannelIds : keysets[c] # {}
    /\ self.chain = config.chain /\ self.provider.accounts # {}

\* C11: handle_err returns Ok for every transport error it is given, sends no
\* message and changes no state, so the error is never escalated into a
\* handler error.
C11_TransportErrorSuppressed ==
    request.call = "handle_err"
        => /\ result = Ok
           /\ sends = <<>>
           /\ phase = "running"
           /\ self = Runtime_with(config).runtime

C11_Witness ==
    /\ request.call = "handle_err"
    /\ result = Ok /\ sends = <<>>
    /\ handled >= 1 /\ delivered >= 1

\* the error handle_ctl ends with when the request fails before any send
DomainError ==
    IF SignFails THEN SigningError
    ELSE IF DeriveFails THEN DerivationError
    ELSE wrong_esb_msg("Ctl", Req)

\* C12: when a request fails with a domain error and the send of the
\* error-wrapped echo fails too, the echo's transport failure is swallowed:
\* handle still returns the original domain error.
C12_DoubleFailureReturnsDomainError ==
    ((SignFails \/ DeriveFails \/ Unsupported) /\ ~request.env.send[1])
        => result = DomainError

\* C13: no error is silently dropped: every control request whose handling
\* ends in an error has that error returned by handle and an error-wrapped
\* echo sent (attempted) to the origin; only a DeriveKeyset handled without an
\* account ends with no response, no echo and no returned error.
C13_NoErrorDropped ==
    /\ (SignFails \/ DeriveFails \/ Unsupported)
          => /\ result = DomainError
             /\ Len(sends) = 1
             /\ sends[1] = ToOrigin(Echo(DomainError), sends[1].ok)
    /\ ((SignSucceeds \/ DeriveSucceeds) /\ self.provider.accounts # {}
            /\ ~request.env.send[1])
          => /\ result = EsbError
             /\ Len(sends) = 2
             /\ sends[2] = ToOrigin(Echo(EsbError), sends[2].ok)
    /\ (OnCtl /\ result = Ok /\ sends = <<>>)
          => (Req.type = "DeriveKeyset" /\ self.provider.accounts = {})

----------------------------------------------------------------------------
(* The handler as a function of the Runtime value it is called on: the       *)
(* service loop over a Runtime whose provider holds the account of the key   *)
(* file or no account at all.                                                *)

InitAnyProvider ==
    /\ phase = "running"
    /\ config \in { c \in Configs : KeyFileValid(c.key_file) }
    /\ self \in { Runtime_with(config).runtime,
                  [Runtime_with(config).runtime EXCEPT !.provider.accounts = {}] }
    /\ request = NoRequest
    /\ result = Ok
    /\ sends = <<>>
    /\ channel_index = <<>>
    /\ keysets = [c \in ChannelIds |-> {}]
    /\ rederived = FALSE
    /\ handled = 0
    /\ delivered = 0

NextAnyProvider == handle \/ handle_err

SpecAnyProvider == InitAnyProvider /\ [][NextAnyProvider]_vars

\* C15: a DeriveKeyset request handled while the provider holds no account
\* makes the handler send nothing (no Keyset, no error-wrapped echo), derive
\* nothing, and handle returns Ok.
C15_NoAccountSilent ==
    (OnCtl /\ Req.type = "DeriveKeyset" /\ self.provider.accounts = {})
        => /\ result = Ok
           /\ sends = <<>>
           /\ \A c \in ChannelIds : keysets[c] = {}
           /\ delivered <= handled - 1

C15_Witness ==
    /\ OnCtl /\ Req.type = "DeriveKeyset" /\ self.provider.accounts = {}
    /\ IsErr(DerivedFor(Req.slice32))
    /\ result = Ok /\ sends = <<>>

\* C16: every message the handler sends (Signed, Keyset or error-wrapped
\* echo) is sent on the control bus, from the identity Signer, to the origin
\* of the request being handled; nothing is sent to another service or on
\* another bus.
C16_ResponseRouting ==
    \A i \in 1..Len(sends) :
        /\ sends[i].bus = "Ctl"
        /\ sends[i].from = [service |-> "Signer", id |-> <<>>]
        /\ sends[i].to = request.source
        /\ sends[i].msg.type = "Ctl"
        /\ sends[i].msg.msg.type \in {"Signed", "Keyset", "Error"}

C16_Witness ==
    /\ OnCtl /\ request.source = ServiceId_Channel(Slice32(<<0, 0, 0, 5>>, 0))
    /\ Len(sends) = 2
    /\ sends[1].msg.msg.type = "Keyset" /\ sends[2].msg.msg.type = "Error"
    /\ sends[2].to = request.source

\* C17: a message that arrives on another bus than the control bus, or that
\* is no control message, is rejected by handle with a wrong-message error
\* and nothing else happens: no signing, no derivation, no message sent.
C17_WrongBusRejected ==
    (request.call = "handle" /\ ~(request.bus = "Ctl" /\ request.message.type = "Ctl"))
        => /\ result = wrong_esb_msg(request.bus, request.message)
           /\ sends = <<>>
           /\ channel_index = <<>>

C17_Witness ==
    /\ request.call = "handle" /\ request.bus = "Msg"
    /\ request.message.type = "Ctl" /\ request.message.msg.type = "DeriveKeyset"
    /\ result.kind = "WrongEsbMsg" /\ sends = <<>>

\* C18: when signing or derivation succeeds but the delivery of the Signed or
\* Keyset response fails, handle attempts exactly one error-wrapped echo of
\* the original request to the origin and returns an error, so the origin
\* never receives both a response and an echo for one request.
C18_FailedResponseEchoed ==
    /\ ((SignSucceeds \/ DeriveSucceeds) /\ ~request.env.send[1])
          => /\ IsErr(result)
             /\ Len(sends) = 2
             /\ sends[1].msg.msg.type \in {"Signed", "Keyset"} /\ ~sends[1].ok
             /\ sends[2] = ToOrigin(Echo(EsbError), request.env.send[2])
    /\ ~(\E i, j \in 1..Len(sends) :
            /\ sends[i].ok /\ sends[i].msg.msg.type \in {"Signed", "Keyset"}
            /\ sends[j].ok /\ sends[j].msg.msg.type = "Error")

C18_Witness ==
    /\ SignSucceeds /\ ~request.env.send[1] /\ request.env.send[2]
    /\ Len(sends) = 2 /\ sends[2].ok /\ sends[2].msg.msg.type = "Error"
    /\ sends[2].msg.msg.request = Req
    /\ result = EsbError

\* C19: every handle call delivers at most one message to the origin and
\* attempts at most two sends, the second only after the request has failed;
\* over any N requests at most N messages are delivered.
C19_AtMostOneDelivered ==
    /\ Delivered(sends) <= 1
    /\ Len(sends) <= 2
    /\ Len(sends) = 2 => (~sends[1].ok /\ IsErr(result))
    /\ delivered <= handled

C19_Witness ==
    /\ handled >= 3 /\ delivered = handled
    /\ Len(sends) = 2 /\ Delivered(sends) = 1

\* C20: in every Keyset response the funding-key field of the keyset is
\* absent and the fingerprint is that of the provider's single account.
C20_KeysetFields ==
    \A i \in 1..Len(sends) :
        sends[i].msg.msg.type = "Keyset"
            => /\ sends[i].msg.msg.keyset.funding = <<>>
               /\ sends[i].msg.msg.keyset.fingerprint
                    = <<"fingerprint", config.key_file.fields[3].val>>
               /\ \A a \in self.provider.accounts :
                     sends[i].msg.msg.keyset.fingerprint = <<"fingerprint", a.account_xpriv>>

C20_Witness ==
    /\ OnCtl /\ Req.type = "DeriveKeyset"
    /\ Len(sends) = 1 /\ sends[1].ok /\ sends[1].msg.msg.type = "Keyset"
    /\ sends[1].msg.msg.keyset.funding = <<>>
    /\ sends[1].msg.msg.keyset.fingerprint = <<"fingerprint", 8>>

====
